---- MODULE Spec2Model ----
(***************************************************************************)
(* The instruction-execution core of src/src/cpu.rs: the CPU struct, its   *)
(* memory helpers, load / reset / run / load_and_run, the addressing-mode  *)
(* resolver and the flag update.                                           *)
(*                                                                         *)
(* The CPU struct is the record `cpu`.  Its memory array [u8; 0xFFFF] is   *)
(* kept sparse: a function from the addresses that hold a non-zero byte to *)
(* that byte; every other address below MemSize holds 0 (CPU::new fills    *)
(* the array with 0).  Addresses keep their 16-bit width and bytes their   *)
(* 8-bit width.  An out-of-range index panics (Rust bounds check).         *)
(***************************************************************************)
EXTENDS Integers, Sequences, FiniteSets, TLC

\* memory: [u8; 0xFFFF] -- the array has 0xFFFF elements, indices 0..0xFFFE
MemSize == 65535
\* load copies the program to 0x8000
Origin == 32768
\* the reset vector at 0xFFFC
ResetVector == 65532
\* a panic inside an address/byte-valued helper
FAULT == -1
\* a panic inside a CPU-valued operation
PANIC == [panic |-> TRUE]

Byte == 0..255

IsPanic(r) == "panic" \in DOMAIN r

(***************************************************************************)
(* Bit operations on u8 (the | and & of update_zero_and_negative_flags).   *)
(***************************************************************************)
RECURSIVE AndBits(_, _, _)
AndBits(a, b, n) ==
    IF n = 0 THEN 0
    ELSE ((a % 2) * (b % 2)) + 2 * AndBits(a \div 2, b \div 2, n - 1)

RECURSIVE OrBits(_, _, _)
OrBits(a, b, n) ==
    IF n = 0 THEN 0
    ELSE (IF (a % 2) + (b % 2) > 0 THEN 1 ELSE 0) + 2 * OrBits(a \div 2, b \div 2, n - 1)

BitAnd(a, b) == AndBits(a, b, 8)
BitOr(a, b) == OrBits(a, b, 8)

\* the 8-bit add carried out in a wider type
WrapAdd8Wide(a, b) == a + b

\* u8::wrapping_add and u16::wrapping_add
WrapAdd8(a, b) == (a + b) % 256
\* the 16-bit add carried out in a wider type
WrapAdd16Wide(a, b) == a + b

WrapAdd16(a, b) == (a + b) % 65536

(***************************************************************************)
(* Memory                                                                  *)
(***************************************************************************)
\* the content of the array at an index inside it
MemAt(mem, a) == IF a \in DOMAIN mem THEN mem[a] ELSE 0

\* the array with one element replaced
MemPut(mem, a, d) ==
    IF d = 0
    THEN [x \in (DOMAIN mem) \ {a} |-> mem[x]]
    ELSE [x \in (DOMAIN mem) \cup {a} |-> IF x = a THEN d ELSE mem[x]]

\* mem_read over an array of all 0x10000 addresses
mem_read_whole(s, addr) == IF addr > MemSize THEN FAULT ELSE MemAt(s.memory, addr)

\* fn mem_read(&self, addr: u16) -> u8
mem_read(s, addr) == IF addr >= MemSize THEN FAULT ELSE MemAt(s.memory, addr)

\* mem_read_u16 taking the high byte first
mem_read_u16_big_endian(s, pos) ==
    LET hi == mem_read(s, pos) IN
    IF hi = FAULT THEN FAULT
    ELSE LET lo == mem_read(s, pos + 1) IN
         IF lo = FAULT THEN FAULT ELSE (hi * 256) + lo

\* fn mem_read_u16(&mut self, pos: u16) -> u16
mem_read_u16(s, pos) ==
    LET lo == mem_read(s, pos) IN
    IF lo = FAULT THEN FAULT
    ELSE LET hi == mem_read(s, pos + 1) IN
         IF hi = FAULT THEN FAULT ELSE (hi * 256) + lo

\* fn mem_write(&mut self, addr: u16, data: u8)
mem_write(s, addr, data) ==
    IF addr >= MemSize THEN PANIC
    ELSE [s EXCEPT !.memory = MemPut(s.memory, addr, data)]

\* mem_write_u16 writing the high byte first
mem_write_u16_big_endian(s, pos, data) ==
    LET hi == data \div 256
        lo == data % 256
        s1 == mem_write(s, pos, hi)
    IN IF IsPanic(s1) THEN PANIC ELSE mem_write(s1, pos + 1, lo)

\* fn mem_write_u16(&mut self, pos: u16, data: u16)
mem_write_u16(s, pos, data) ==
    LET hi == data \div 256
        lo == data % 256
        s1 == mem_write(s, pos, lo)
    IN IF IsPanic(s1) THEN PANIC ELSE mem_write(s1, pos + 1, hi)

(***************************************************************************)
(* Construction, load, reset                                               *)
(***************************************************************************)
\* CPU::new
new ==
    [register_a |-> 0, register_x |-> 0, register_y |-> 0, status |-> 0,
     program_counter |-> 0, memory |-> <<>>]

\* self.memory[0x8000..(0x8000 + program.len())].copy_from_slice(&program[..])
CopyFromSlice(mem, program) ==
    LET range == Origin .. (Origin + Len(program) - 1)
        keep == (DOMAIN mem) \ range
        set == {Origin + i - 1 : i \in {j \in 1..Len(program) : program[j] # 0}}
    IN [x \in keep \cup set |-> IF x \in set THEN program[x - Origin + 1] ELSE mem[x]]

\* pub fn load(&mut self, program: Vec<u8>)
load(s, program) ==
    IF Origin + Len(program) > MemSize THEN PANIC
    ELSE mem_write_u16([s EXCEPT !.memory = CopyFromSlice(s.memory, program)],
                       ResetVector, Origin)

\* reset leaving A and X as they are
reset_keeps_registers(s) ==
    LET v == mem_read_u16(s, ResetVector) IN
    IF v = FAULT THEN PANIC
    ELSE [s EXCEPT !.status = 0, !.program_counter = v]

\* reset without `self.status = 0`
reset_keeps_status(s) ==
    LET v == mem_read_u16(s, ResetVector) IN
    IF v = FAULT THEN PANIC
    ELSE [s EXCEPT !.register_a = 0, !.register_x = 0, !.program_counter = v]

\* pub fn reset(&mut self)
reset(s) ==
    LET v == mem_read_u16(s, ResetVector) IN
    IF v = FAULT THEN PANIC
    ELSE [s EXCEPT !.register_a = 0, !.register_x = 0, !.status = 0,
                   !.program_counter = v]

(***************************************************************************)
(* Flags, resolver, instructions                                           *)
(***************************************************************************)
\* the flag update assigning the masks where the code ors them in
update_flags_assign(s, result) ==
    LET z == IF result = 0 THEN 2 ELSE BitAnd(s.status, 253)
        n == IF BitAnd(result, 128) # 0 THEN 128 ELSE BitAnd(z, 127)
    IN [s EXCEPT !.status = n]

\* fn update_zero_and_negative_flags(&mut self, result: u8)
update_zero_and_negative_flags(s, result) ==
    LET z == IF result = 0 THEN BitOr(s.status, 2) ELSE BitAnd(s.status, 253)
        n == IF BitAnd(result, 128) # 0 THEN BitOr(z, 128) ELSE BitAnd(z, 127)
    IN [s EXCEPT !.status = n]

\* the resolver adding Y to the low byte of the IndirectY pointer's target
\* without a carry into the high byte
get_operand_address_page_bound(s, mode) ==
    LET pc == s.program_counter IN
    CASE mode = "Immediate" -> pc
      [] mode = "ZeroPage" -> mem_read(s, pc)
      [] mode = "Absolute" -> mem_read_u16(s, pc)
      [] mode = "ZeroPageX" ->
            LET pos == mem_read(s, pc) IN
            IF pos = FAULT THEN FAULT ELSE WrapAdd8(pos, s.register_x)
      [] mode = "ZeroPageY" ->
            LET pos == mem_read(s, pc) IN
            IF pos = FAULT THEN FAULT ELSE WrapAdd8(pos, s.register_y)
      [] mode = "AbsoluteX" ->
            LET base == mem_read_u16(s, pc) IN
            IF base = FAULT THEN FAULT ELSE WrapAdd16(base, s.register_x)
      [] mode = "AbsoluteY" ->
            LET base == mem_read_u16(s, pc) IN
            IF base = FAULT THEN FAULT ELSE WrapAdd16(base, s.register_y)
      [] mode = "IndirectX" ->
            LET base == mem_read(s, pc) IN
            IF base = FAULT THEN FAULT
            ELSE LET ptr == WrapAdd8(base, s.register_x)
                     lo == mem_read(s, ptr)
                     hi == mem_read(s, WrapAdd8(ptr, 1))
                 IN (hi * 256) + lo
      [] mode = "IndirectY" ->
            LET base == mem_read(s, pc) IN
            IF base = FAULT THEN FAULT
            ELSE LET lo == mem_read(s, base)
                     hi == mem_read(s, WrapAdd8(base, 1))
                 IN (hi * 256) + WrapAdd8(lo, s.register_y)
      [] OTHER -> FAULT

\* fn get_operand_address(&mut self, mode: &AddressingMode) -> u16
get_operand_address(s, mode) ==
    LET pc == s.program_counter IN
    CASE mode = "Immediate" -> pc
      [] mode = "ZeroPage" -> mem_read(s, pc)
      [] mode = "Absolute" -> mem_read_u16(s, pc)
      [] mode = "ZeroPageX" ->
            LET pos == mem_read(s, pc) IN
            IF pos = FAULT THEN FAULT ELSE WrapAdd8(pos, s.register_x)
      [] mode = "ZeroPageY" ->
            LET pos == mem_read(s, pc) IN
            IF pos = FAULT THEN FAULT ELSE WrapAdd8(pos, s.register_y)
      [] mode = "AbsoluteX" ->
            LET base == mem_read_u16(s, pc) IN
            IF base = FAULT THEN FAULT ELSE WrapAdd16(base, s.register_x)
      [] mode = "AbsoluteY" ->
            LET base == mem_read_u16(s, pc) IN
            IF base = FAULT THEN FAULT ELSE WrapAdd16(base, s.register_y)
      [] mode = "IndirectX" ->
            LET base == mem_read(s, pc) IN
            IF base = FAULT THEN FAULT
            ELSE LET ptr == WrapAdd8(base, s.register_x)
                     lo == mem_read(s, ptr)
                     hi == mem_read(s, WrapAdd8(ptr, 1))
                 IN (hi * 256) + lo
      [] mode = "IndirectY" ->
            LET base == mem_read(s, pc) IN
            IF base = FAULT THEN FAULT
            ELSE LET lo == mem_read(s, base)
                     hi == mem_read(s, WrapAdd8(base, 1))
                     deref_base == (hi * 256) + lo
                 IN WrapAdd16(deref_base, s.register_y)
      [] OTHER -> FAULT

\* fn lda(&mut self, mode: &AddressingMode)
lda(s, mode) ==
    LET addr == get_operand_address(s, mode) IN
    IF addr = FAULT THEN PANIC
    ELSE LET value == mem_read(s, addr) IN
         IF value = FAULT THEN PANIC
         ELSE update_zero_and_negative_flags([s EXCEPT !.register_a = value], value)

\* tax with the flags taken before the transfer, from the stale X
tax_stale_flags(s) ==
    [update_zero_and_negative_flags(s, s.register_x) EXCEPT !.register_x = s.register_a]

\* fn tax(&mut self)
tax(s) ==
    update_zero_and_negative_flags([s EXCEPT !.register_x = s.register_a], s.register_a)

\* inx incrementing Y
inx_into_y(s) ==
    LET y == WrapAdd8(s.register_y, 1) IN
    update_zero_and_negative_flags([s EXCEPT !.register_y = y], y)

\* inx with a saturating add in place of wrapping_add
inx_saturating(s) ==
    LET x == IF s.register_x = 255 THEN 255 ELSE s.register_x + 1 IN
    update_zero_and_negative_flags([s EXCEPT !.register_x = x], x)

\* fn inx(&mut self)
inx(s) ==
    LET x == WrapAdd8(s.register_x, 1) IN
    update_zero_and_negative_flags([s EXCEPT !.register_x = x], x)

(***************************************************************************)
(* The run loop                                                            *)
(***************************************************************************)
\* the modes of the arms with the 0xBD arm passing NoneAddressing
LdaModeNoAbsoluteX(opcode) ==
    CASE opcode = 161 -> "IndirectX"
      [] opcode = 165 -> "ZeroPage"
      [] opcode = 169 -> "Immediate"
      [] opcode = 173 -> "Absolute"
      [] opcode = 177 -> "IndirectY"
      [] opcode = 181 -> "ZeroPageX"
      [] opcode = 185 -> "AbsoluteY"
      [] OTHER -> "NoneAddressing"

\* the match arms of run that call lda, with the mode each passes
LdaMode(opcode) ==
    CASE opcode = 161 -> "IndirectX"
      [] opcode = 165 -> "ZeroPage"
      [] opcode = 169 -> "Immediate"
      [] opcode = 173 -> "Absolute"
      [] opcode = 177 -> "IndirectY"
      [] opcode = 181 -> "ZeroPageX"
      [] opcode = 185 -> "AbsoluteY"
      [] opcode = 189 -> "AbsoluteX"
      [] OTHER -> "NoneAddressing"

LdaOpcodes == {161, 165, 169, 173, 177, 181, 185, 189}

\* every lda arm moving the counter back before the instruction
OperandAdvanceBack(opcode) == 0 - 2

\* every lda arm written as the 0xA1 arm is
OperandAdvanceNone(opcode) == 0

\* what each lda arm adds to the program counter after lda returns:
\* 0xA1 has the statement `self.program_counter;`, every other arm `+= 1`
OperandAdvance(opcode) == IF opcode = 161 THEN 0 ELSE 1

\* the default arm returning from run
UnlistedHalts(s) == [cpu |-> s, ctl |-> "return"]

\* the default arm taking an operand byte
UnlistedSkipsOperand(s) ==
    [cpu |-> [s EXCEPT !.program_counter = @ + 1], ctl |-> "loop"]

\* the arm `_ => {}`
Unlisted(s) == [cpu |-> s, ctl |-> "loop"]

\* one arm of `match opcode`, applied to the CPU whose counter is already
\* past the opcode; ctl is what the loop does next
Dispatch(s, opcode) ==
    CASE opcode = 0 -> [cpu |-> s, ctl |-> "return"]
      [] opcode \in LdaOpcodes ->
            LET s1 == lda(s, LdaMode(opcode)) IN
            IF IsPanic(s1) THEN [cpu |-> s, ctl |-> "panic"]
            ELSE [cpu |-> [s1 EXCEPT !.program_counter = @ + OperandAdvance(opcode)],
                  ctl |-> "loop"]
      [] opcode = 170 -> [cpu |-> tax(s), ctl |-> "loop"]
      [] opcode = 232 -> [cpu |-> inx(s), ctl |-> "loop"]
      [] OTHER -> Unlisted(s)

\* one iteration of the loop of run: fetch, advance, dispatch
Iterate(s) ==
    LET opcode == mem_read(s, s.program_counter) IN
    IF opcode = FAULT THEN [cpu |-> s, ctl |-> "panic"]
    ELSE Dispatch([s EXCEPT !.program_counter = @ + 1], opcode)

\* pub fn run(&mut self): the loop up to its return or its panic
RECURSIVE run(_)
run(s) ==
    LET r == Iterate(s) IN
    IF r.ctl = "loop" THEN run(r.cpu) ELSE r

\* pub fn load_and_run(&mut self, program: Vec<u8>)
load_and_run(s, p) ==
    LET l == load(s, p)
        r == IF IsPanic(l) THEN PANIC ELSE reset(l)
    IN IF IsPanic(r) THEN [cpu |-> s, ctl |-> "panic"] ELSE run(r)

(***************************************************************************)
(* The machine and its caller.  The caller is the code that owns the CPU,  *)
(* and it proceeds as the tests of cpu.rs do: CPU::new, then memory writes *)
(* (mem_write, mem_write_u16), then load, then reset, then run, with       *)
(* assignments to the public register fields in between; or load_and_run   *)
(* in place of load, reset and run.  load and reset may be left out.       *)
(*   cpu      the CPU struct                                               *)
(*   phase    where the caller is: "new" (nothing called yet), "loaded"    *)
(*            (load has returned), "reset" (reset has returned), "running" *)
(*            (inside the loop of run), "returned" (run has returned),     *)
(*            "panicked" (an index was out of range)                       *)
(*   op       the last operation the caller performed                      *)
(*   program  the argument of the load / load_and_run call                 *)
(*   entry    the CPU as it was when the last load / reset / run /         *)
(*            load_and_run was called                                      *)
(*   sets     how many memory writes and register assignments the caller   *)
(*            has made                                                     *)
(***************************************************************************)
VARIABLES cpu, phase, op, program, entry, sets

vars == <<cpu, phase, op, program, entry, sets>>

\* the most memory writes and register assignments of one caller
MaxSets == 2

\* where and what the caller writes before load
SeedAddrs == {0, 3, 255}
SeedData == {128, 255}
SeedWordAddrs == {2, 65532}
SeedWords == {32769, 65535}

\* the values the caller assigns to the public fields
FieldValues ==
    [register_a |-> {128}, register_x |-> {1, 255}, register_y |-> {1, 255},
     status |-> {255}, program_counter |-> {65534}]

\* the programs the caller loads: one Load-A instruction and the halt opcode,
\* and a few programs of the implied instructions and unlisted opcodes
OperandBytes == {0, 2, 232, 255}
LowBytes == {0, 1, 255}
HighBytes == {128, 232, 255}
ShortLda == {161, 165, 169, 177, 181}
WideLda == {173, 185, 189}
Programs ==
    {<<o, b, 0>> : o \in ShortLda, b \in OperandBytes}
    \cup {<<w[1], w[2], w[3], 0>> : w \in WideLda \X LowBytes \X HighBytes}
    \cup {<<>>, <<170>>, <<232, 0>>, <<234, 0>>, <<169, 128, 170, 232, 0>>}

Setup == {"new", "loaded", "reset"}

Init ==
    /\ cpu = new
    /\ phase = "new"
    /\ op = "new"
    /\ program = <<>>
    /\ entry = new
    /\ sets = 0

\* cpu.mem_write(addr, data) by the caller
MemWrite(addr, data) ==
    /\ phase = "new"
    /\ sets < MaxSets
    /\ LET r == mem_write(cpu, addr, data)
       IN /\ cpu' = IF IsPanic(r) THEN cpu ELSE r
          /\ phase' = IF IsPanic(r) THEN "panicked" ELSE phase
    /\ sets' = sets + 1
    /\ op' = "set"
    /\ entry' = cpu'
    /\ UNCHANGED program

\* cpu.mem_write_u16(pos, data) by the caller
MemWriteU16(pos, data) ==
    /\ phase = "new"
    /\ sets < MaxSets
    /\ LET r == mem_write_u16(cpu, pos, data)
       IN /\ cpu' = IF IsPanic(r) THEN cpu ELSE r
          /\ phase' = IF IsPanic(r) THEN "panicked" ELSE phase
    /\ sets' = sets + 1
    /\ op' = "set"
    /\ entry' = cpu'
    /\ UNCHANGED program

\* cpu.<field> = v by the caller (the fields are pub)
Assign(field, v) ==
    /\ phase \in Setup
    /\ sets < MaxSets
    /\ cpu' = [cpu EXCEPT ![field] = v]
    /\ sets' = sets + 1
    /\ op' = "set"
    /\ entry' = cpu'
    /\ UNCHANGED <<phase, program>>

\* cpu.load(p)
CallLoad(p) ==
    /\ phase = "new"
    /\ LET r == load(cpu, p)
       IN /\ cpu' = IF IsPanic(r) THEN cpu ELSE r
          /\ phase' = IF IsPanic(r) THEN "panicked" ELSE "loaded"
    /\ op' = "load"
    /\ program' = p
    /\ entry' = cpu
    /\ UNCHANGED sets

\* cpu.reset()
CallReset ==
    /\ phase \in {"new", "loaded"}
    /\ LET r == reset(cpu)
       IN /\ cpu' = IF IsPanic(r) THEN cpu ELSE r
          /\ phase' = IF IsPanic(r) THEN "panicked" ELSE "reset"
    /\ op' = "reset"
    /\ entry' = cpu
    /\ UNCHANGED <<program, sets>>

\* cpu.run(): enter the loop
CallRun ==
    /\ phase \in Setup
    /\ phase' = "running"
    /\ op' = "run"
    /\ entry' = cpu
    /\ UNCHANGED <<cpu, program, sets>>

\* cpu.load_and_run(p): load, reset, and enter the loop of run
CallLoadAndRun(p) ==
    /\ phase = "new"
    /\ LET l == load(cpu, p)
           r == IF IsPanic(l) THEN PANIC ELSE reset(l)
       IN /\ cpu' = IF IsPanic(r) THEN cpu ELSE r
          /\ phase' = IF IsPanic(r) THEN "panicked" ELSE "running"
    /\ op' = "load_and_run"
    /\ program' = p
    /\ entry' = cpu
    /\ UNCHANGED sets

\* one iteration of the loop of run
Step ==
    /\ phase = "running"
    /\ LET r == Iterate(cpu)
       IN /\ cpu' = r.cpu
          /\ phase' = CASE r.ctl = "return" -> "returned"
                        [] r.ctl = "panic" -> "panicked"
                        [] OTHER -> "running"
    /\ UNCHANGED <<op, program, entry, sets>>

Next ==
    \/ \E a \in SeedAddrs, d \in SeedData : MemWrite(a, d)
    \/ \E a \in SeedWordAddrs, d \in SeedWords : MemWriteU16(a, d)
    \/ \E f \in DOMAIN FieldValues : \E v \in FieldValues[f] : Assign(f, v)
    \/ \E p \in Programs : CallLoad(p)
    \/ CallReset
    \/ CallRun
    \/ \E p \in Programs : CallLoadAndRun(p)
    \/ Step

Spec == Init /\ [][Next]_vars

\* run is a loop with nothing to wait for: once entered, its next iteration
\* is carried out.  This is weak fairness of Step, WF_vars(Step), with
\* ENABLED <<Step>>_vars written as the state predicate it equals: Step is
\* possible exactly inside the loop, and it always changes the counter or
\* the phase.
RunFairness == []<>(phase # "running") \/ []<><<Step>>_vars

SpecLive == Spec /\ RunFairness

(***************************************************************************)
(* The same machine and caller with other programs: the Load-A-Immediate   *)
(* program of every byte, a program that ends in every opcode byte, and    *)
(* programs that reach the end of memory.                                  *)
(***************************************************************************)
\* [Load-A-Immediate, v, Halt] for every byte v
ImmediatePrograms == {<<169, v, 0>> : v \in Byte}

\* Load-A #0x80, Transfer-A-to-X, then the opcode byte v, for every byte v
OpcodePrograms == {<<169, 128, 170, v>> : v \in Byte}

\* a program of n bytes that is 0 up to address 0xFFFA and 0xFF from 0xFFFB on
LongProgram(n) ==
    [i \in 1..n |-> IF Origin + i - 1 >= ResetVector - 1 THEN 255 ELSE 0] \o <<>>
\* the last byte at 0xFFFB, at 0xFFFC, at 0xFFFE (the last index), at 0xFFFF
LongPrograms == {LongProgram(n) : n \in {32764, 32765, 32767, 32768}}

NextImmediate ==
    \/ \E f \in DOMAIN FieldValues : \E v \in FieldValues[f] : Assign(f, v)
    \/ \E p \in ImmediatePrograms : CallLoadAndRun(p)
    \/ Step

SpecImmediate == Init /\ [][NextImmediate]_vars

NextOpcodes ==
    \/ \E f \in DOMAIN FieldValues : \E v \in FieldValues[f] : Assign(f, v)
    \/ \E p \in OpcodePrograms : CallLoadAndRun(p)
    \/ Step

SpecOpcodes == Init /\ [][NextOpcodes]_vars

NextLoad ==
    \/ \E a \in SeedAddrs, d \in SeedData : MemWrite(a, d)
    \/ \E f \in DOMAIN FieldValues : \E v \in FieldValues[f] : Assign(f, v)
    \/ \E p \in Programs \cup LongPrograms : CallLoad(p)
    \/ CallReset

SpecLoad == Init /\ [][NextLoad]_vars

\* the programs that put every byte v into A and into X, then increment X and
\* transfer again with X different from A
RegisterPrograms == {<<169, v, 170, 232, 170>> : v \in Byte}

NextRegisters ==
    \/ \E f \in DOMAIN FieldValues : \E v \in FieldValues[f] : Assign(f, v)
    \/ \E p \in RegisterPrograms : CallLoadAndRun(p)
    \/ Step

SpecRegisters == Init /\ [][NextRegisters]_vars

\* the caller working at the top of the address space: writes to the last
\* three addresses, the program counter set near the top, and the programs
\* whose operand or effective address is one of the last two addresses
TopAddrs == {65533, 65534, 65535}
TopData == LdaOpcodes \cup {234}
TopWordAddrs == {2, 65534}
TopCounters == {65533, 65535}
TopPrograms ==
    {<<173, 254, 255, 0>>, <<173, 255, 255, 0>>, <<189, 254, 255, 0>>,
     <<185, 255, 255, 0>>, <<177, 2, 0>>, <<161, 2, 0>>, <<165, 255, 0>>}

NextTop ==
    \/ \E a \in TopAddrs, d \in TopData : MemWrite(a, d)
    \/ \E a \in TopWordAddrs : MemWriteU16(a, 65535)
    \/ \E f \in DOMAIN FieldValues : \E v \in FieldValues[f] : Assign(f, v)
    \/ \E v \in TopCounters : Assign("program_counter", v)
    \/ \E p \in TopPrograms : CallLoad(p)
    \/ CallReset
    \/ CallRun
    \/ \E p \in TopPrograms : CallLoadAndRun(p)
    \/ Step

SpecTop == Init /\ [][NextTop]_vars

(***************************************************************************)
(* Properties                                                              *)
(***************************************************************************)
\* the Zero flag (status bit 1) and the Negative flag (status bit 7) as 0 / 1
ZeroFlag(st) == (st \div 2) % 2
NegativeFlag(st) == (st \div 128) % 2
\* status bits 0, 2, 3, 4, 5 and 6
OtherBits(st) == st - (2 * ZeroFlag(st)) - (128 * NegativeFlag(st))
\* the flags a result byte r asks for
ZeroOf(r) == IF r = 0 THEN 1 ELSE 0
NegativeOf(r) == IF r >= 128 THEN 1 ELSE 0
FlagsFrom(st, r) == ZeroFlag(st) = ZeroOf(r) /\ NegativeFlag(st) = NegativeOf(r)

\* the byte the next iteration of run fetches as its opcode (FAULT past the array)
Fetched == IF cpu.program_counter >= MemSize THEN FAULT
           ELSE MemAt(cpu.memory, cpu.program_counter)

\* the caller called run on the program it had loaded and reset, with the
\* registers in entry seeded after the reset
RanProgram == op = "run" /\ entry.program_counter = Origin

\* C1: for every byte v, load_and_run of [0xA9, v, 0x00] halts (after the
\* fetches at 0x8000 and 0x8002, without a panic) with A = v, Zero = (v = 0),
\* Negative = (v >= 0x80), X = 0, the six other status bits 0 and Y as it was
\* before the call.
C1_LdaImmediate ==
    (op = "load_and_run" /\ Len(program) = 3 /\ program[1] = 169 /\ program[3] = 0) =>
        /\ phase \in {"running", "returned"}
        /\ phase = "running" => cpu.program_counter \in {Origin, Origin + 2}
        /\ phase = "returned" =>
            /\ cpu.program_counter = Origin + 3
            /\ cpu.register_a = program[2]
            /\ FlagsFrom(cpu.status, program[2])
            /\ OtherBits(cpu.status) = 0
            /\ cpu.register_x = 0
            /\ cpu.register_y = entry.register_y

\* C1 witness: [0xA9, 0x80, 0x00] has run on a CPU whose Y and status were
\* 0xFF before the call
C1_Witness ==
    /\ op = "load_and_run" /\ phase = "returned"
    /\ program = <<169, 128, 0>>
    /\ entry.register_y = 255 /\ entry.status = 255
    /\ cpu.register_a = 128 /\ cpu.status = 128 /\ cpu.register_y = 255

\* C2 (as claimed): a Load-A opcode fetched at p leaves the program counter at
\* p + 1 + w once the instruction completes, w = 2 for 0xAD, 0xBD, 0xB9 and
\* w = 1 for the other five.
OperandWidth(opcode) == IF opcode \in {173, 189, 185} THEN 2 ELSE 1
C2_OperandWidth ==
    [][(phase = "running" /\ Fetched \in LdaOpcodes /\ phase' = "running") =>
        cpu'.program_counter = cpu.program_counter + 1 + OperandWidth(Fetched)]_vars

\* C3 (as claimed): run of the loaded [opcode, lo, hi, 0x00], opcode one of 0xAD,
\* 0xBD, 0xB9, with effective address e <= 0xFFFE, halts with A = the byte at
\* e, Zero / Negative from that byte, X and Y as seeded.
AbsoluteAddress(opcode, lo, hi, x, y) ==
    LET base == lo + (256 * hi) IN
    CASE opcode = 173 -> base
      [] opcode = 189 -> (base + x) % 65536
      [] opcode = 185 -> (base + y) % 65536
LoadedResult(e) ==
    /\ phase # "panicked"
    /\ phase = "returned" =>
        /\ cpu.register_a = MemAt(entry.memory, e)
        /\ FlagsFrom(cpu.status, MemAt(entry.memory, e))
        /\ cpu.register_x = entry.register_x
        /\ cpu.register_y = entry.register_y
C3_LdaAbsolute ==
    (RanProgram /\ Len(program) = 4 /\ program[1] \in {173, 189, 185} /\ program[4] = 0) =>
        LET e == AbsoluteAddress(program[1], program[2], program[3],
                                 entry.register_x, entry.register_y)
        IN e <= 65534 => LoadedResult(e)

\* C4 (as claimed): run of the loaded [0xA1, b, 0x00] with IndirectX effective
\* address e <= 0xFFFE halts with A = the byte at e, Zero / Negative from that
\* byte, X as seeded.
IndirectXAddress(mem, b, x) ==
    LET ptr == (b + x) % 256 IN MemAt(mem, ptr) + (256 * MemAt(mem, (ptr + 1) % 256))
C4_LdaIndirectX ==
    (RanProgram /\ Len(program) = 3 /\ program[1] = 161 /\ program[3] = 0) =>
        LET e == IndirectXAddress(entry.memory, program[2], entry.register_x)
        IN e <= 65534 => LoadedResult(e)

\* C5: run of the loaded [opcode, b, 0x00], opcode one of 0xA5 (ZeroPage), 0xB5
\* (ZeroPageX), 0xB1 (IndirectY), with effective address e <= 0xFFFE, halts with
\* A = the byte at e, Zero / Negative from that byte, X and Y as seeded.
ShortAddress(mem, opcode, b, x, y) ==
    CASE opcode = 165 -> b
      [] opcode = 181 -> (b + x) % 256
      [] opcode = 177 -> (MemAt(mem, b) + (256 * MemAt(mem, (b + 1) % 256)) + y) % 65536
C5_LdaShort ==
    (RanProgram /\ Len(program) = 3 /\ program[1] \in {165, 181, 177} /\ program[3] = 0) =>
        LET e == ShortAddress(entry.memory, program[1], program[2],
                              entry.register_x, entry.register_y)
        IN e <= 65534 => LoadedResult(e)

\* C5 witness: [0xB1, 0x02, 0x00] has run with Y = 1 and the pointer at 0x02
\* holding 0x8000: A is the byte at 0x8001, the operand 0x02
C5_Witness ==
    /\ RanProgram /\ phase = "returned"
    /\ program = <<177, 2, 0>>
    /\ entry.register_y = 1
    /\ MemAt(entry.memory, 2) = 0 /\ MemAt(entry.memory, 3) = 128
    /\ cpu.register_a = 2

\* C6: reset never panics and sets A = 0, X = 0, status = 0 and the program
\* counter to the little-endian word at 0xFFFC / 0xFFFD, and leaves Y and
\* every memory byte as they were.
C6_Reset ==
    op = "reset" =>
        /\ phase = "reset"
        /\ cpu.register_a = 0
        /\ cpu.register_x = 0
        /\ cpu.status = 0
        /\ cpu.program_counter =
              MemAt(entry.memory, 65532) + (256 * MemAt(entry.memory, 65533))
        /\ cpu.register_y = entry.register_y
        /\ cpu.memory = entry.memory

\* C6 witness: reset of a loaded CPU whose X and status were 0xFF
C6_Witness ==
    /\ op = "reset" /\ phase = "reset"
    /\ entry.register_x = 255 /\ entry.status = 255
    /\ cpu.program_counter = Origin /\ cpu.register_x = 0 /\ cpu.status = 0

\* what load leaves besides the program bytes: the vector holds 0x00, 0x80,
\* every byte outside the program and the vector is as it was, so is every
\* register, and a reset that follows sets the program counter to 0x8000
LoadFrame ==
    /\ MemAt(cpu.memory, 65532) = 0
    /\ MemAt(cpu.memory, 65533) = 128
    /\ \A a \in (DOMAIN cpu.memory) \cup (DOMAIN entry.memory) :
          (a < Origin \/ (a >= Origin + Len(program) /\ a \notin {65532, 65533})) =>
              MemAt(cpu.memory, a) = MemAt(entry.memory, a)
    /\ cpu.register_a = entry.register_a
    /\ cpu.register_x = entry.register_x
    /\ cpu.register_y = entry.register_y
    /\ cpu.status = entry.status
    /\ cpu.program_counter = entry.program_counter
    /\ reset(cpu).program_counter = Origin

\* C7 (as claimed): after load of a program that fits (0x8000 + length <=
\* 0xFFFF) every program byte i is at 0x8000 + i, and the rest is as LoadFrame
\* says.
C7_LoadAll ==
    (op = "load" /\ Origin + Len(program) <= MemSize) =>
        /\ phase = "loaded"
        /\ \A i \in 1..Len(program) : MemAt(cpu.memory, Origin + i - 1) = program[i]
        /\ LoadFrame

\* C7 (amended): after load of a program that fits, every program byte i whose
\* address 0x8000 + i is neither 0xFFFC nor 0xFFFD is at 0x8000 + i, and the
\* rest is as LoadFrame says (the vector is written over the program).
C7_Load ==
    (op = "load" /\ Origin + Len(program) <= MemSize) =>
        /\ phase = "loaded"
        /\ \A i \in 1..Len(program) :
              (Origin + i - 1) \notin {65532, 65533} =>
                  MemAt(cpu.memory, Origin + i - 1) = program[i]
        /\ LoadFrame

\* C7 witness: a program whose last byte is at 0xFFFE has been loaded over
\* seeded memory and assigned registers
C7_Witness ==
    /\ op = "load" /\ phase = "loaded"
    /\ Len(program) = 32767
    /\ MemAt(cpu.memory, 65534) = 255 /\ MemAt(cpu.memory, 65533) = 128
    /\ MemAt(cpu.memory, 255) = 128
    /\ cpu.register_x = 255

\* C8: an iteration of run returns exactly when the byte it fetched as opcode is
\* 0x00; the CPU is then as it was before the fetch but for the program
\* counter, one past the halt opcode; nothing executes after the return.
C8_Halt ==
    [][/\ phase = "running" =>
            /\ (phase' = "returned") <=> (Fetched = 0)
            /\ Fetched = 0 => cpu' = [cpu EXCEPT !.program_counter = @ + 1]
       /\ phase' = "returned" => phase = "running"
       /\ phase = "returned" => cpu' = cpu]_vars

\* C8 witness: run has returned after Load-A, Transfer-A-to-X and Increment-X
C8_Witness ==
    /\ op = "run" /\ phase = "returned"
    /\ program = <<169, 128, 170, 232, 0>>
    /\ cpu.program_counter = Origin + 5
    /\ cpu.register_x = 129

\* C9: an iteration of run that fetches an opcode byte other than the eleven
\* listed ones adds one to the program counter, leaves A, X, Y, status and
\* memory as they were, and stays in the loop.
ListedOpcodes == {0, 161, 165, 169, 170, 173, 177, 181, 185, 189, 232}
C9_Unlisted ==
    [][(phase = "running" /\ Fetched # FAULT /\ Fetched \notin ListedOpcodes) =>
          /\ cpu' = [cpu EXCEPT !.program_counter = @ + 1]
          /\ phase' = "running"]_vars

\* C9 witness: the unlisted opcode 0xEA has been executed with A, X, Y and
\* status all non-zero
C9_Witness ==
    /\ op = "load_and_run" /\ phase = "running"
    /\ program = <<169, 128, 170, 234>>
    /\ cpu.program_counter = Origin + 4
    /\ cpu.register_a = 128 /\ cpu.register_x = 128 /\ cpu.register_y = 255
    /\ cpu.status = 128

\* C10: an iteration of run that executes Load-A, Transfer-A-to-X or
\* Increment-X with result r sets status bit 1 to (r = 0) and bit 7 to bit 7 of
\* r and leaves the six other bits as they were; and while run executes on a
\* CPU whose six other bits were 0 at its start (as they are after reset), they
\* stay 0.
FlagOpcodes == LdaOpcodes \cup {170, 232}
C10_FlagStep ==
    (phase = "running" /\ Fetched \in FlagOpcodes /\ phase' # "panicked") =>
        LET r == IF Fetched \in LdaOpcodes THEN cpu'.register_a ELSE cpu'.register_x
        IN /\ FlagsFrom(cpu'.status, r)
           /\ OtherBits(cpu'.status) = OtherBits(cpu.status)
C10_AfterReset ==
    /\ (op = "load_and_run" /\ phase \in {"running", "returned"}) =>
          OtherBits(cpu.status) = 0
    /\ (op = "run" /\ OtherBits(entry.status) = 0) => OtherBits(cpu.status) = 0
C10_Flags == [][C10_FlagStep]_vars /\ []C10_AfterReset

\* C10 witness: Load-A #0x80, Transfer-A-to-X and Increment-X have run on a CPU
\* whose status was 0xFF: Zero is clear, the other seven bits are set
C10_Witness ==
    /\ op = "run" /\ phase = "returned"
    /\ entry.status = 255
    /\ cpu.register_x = 129
    /\ cpu.status = 253

\* the caller called load_and_run on <<0xA9, v, 0xAA, 0xE8, 0xAA>>
RanRegisters(v) == op = "load_and_run" /\ program = <<169, v, 170, 232, 170>>

\* C11: an iteration of run that fetches 0xAA sets X to A whatever X held,
\* leaves A, Y, memory and the six other status bits unchanged, sets Zero and
\* Negative from the new X, advances the program counter by exactly one and
\* stays in the loop.
C11_TaxStep ==
    (phase = "running" /\ Fetched = 170) =>
        /\ phase' = "running"
        /\ cpu'.register_x = cpu.register_a
        /\ cpu'.register_a = cpu.register_a
        /\ cpu'.register_y = cpu.register_y
        /\ cpu'.memory = cpu.memory
        /\ FlagsFrom(cpu'.status, cpu'.register_x)
        /\ OtherBits(cpu'.status) = OtherBits(cpu.status)
        /\ cpu'.program_counter = cpu.program_counter + 1

C11_Tax == [][C11_TaxStep]_vars

\* the second 0xAA of the program has run: X held 0x81, A held 0x80
C11_Witness ==
    /\ RanRegisters(128)
    /\ phase = "running"
    /\ cpu.program_counter = Origin + 5
    /\ cpu.register_x = 128
    /\ cpu.register_a = 128
    /\ cpu.status = 128

\* C12: an iteration of run that fetches 0xE8 sets X to (X + 1) mod 256, sets
\* Zero = (new X = 0) and Negative = (new X >= 0x80), so 0xFF becomes 0x00
\* with Zero set and Negative clear and 0x7F becomes 0x80 with Negative set and
\* Zero clear; A, Y, memory and the other status bits are unchanged and the
\* program counter advances by one.
C12_InxStep ==
    (phase = "running" /\ Fetched = 232) =>
        /\ phase' = "running"
        /\ cpu'.register_x = (cpu.register_x + 1) % 256
        /\ cpu.register_x = 255 => (cpu'.register_x = 0 /\ ZeroFlag(cpu'.status) = 1
                                     /\ NegativeFlag(cpu'.status) = 0)
        /\ cpu.register_x = 127 => (cpu'.register_x = 128 /\ ZeroFlag(cpu'.status) = 0
                                     /\ NegativeFlag(cpu'.status) = 1)
        /\ FlagsFrom(cpu'.status, cpu'.register_x)
        /\ OtherBits(cpu'.status) = OtherBits(cpu.status)
        /\ cpu'.register_a = cpu.register_a
        /\ cpu'.register_y = cpu.register_y
        /\ cpu'.memory = cpu.memory
        /\ cpu'.program_counter = cpu.program_counter + 1

C12_Inx == [][C12_InxStep]_vars

\* 0xE8 has run with X = 0xFF: X is 0, Zero is set, Negative is clear
C12_Witness ==
    /\ RanRegisters(255)
    /\ phase = "running"
    /\ cpu.program_counter = Origin + 4
    /\ cpu.register_x = 0
    /\ cpu.register_a = 255
    /\ cpu.status = 2

\* C13: whatever byte run fetches, the iteration passes the resolver a mode
\* other than NoneAddressing if it calls it at all (only the eight Load-A arms
\* call it), and no iteration of load_and_run of <<0xA9, 0x80, 0xAA, v>>, v any
\* byte, aborts: these programs read no address near 0xFFFF, so the resolver's
\* fatal arm is the only abort they could meet.
C13_ResolverStep ==
    (phase = "running" /\ Fetched \in LdaOpcodes) => LdaMode(Fetched) # "NoneAddressing"

C13_NoNoneAddressing == [][C13_ResolverStep]_vars /\ [](phase # "panicked")

\* the 0xBD arm has called the resolver (AbsoluteX, base 0, X = 0x80) and
\* loaded A from address 0x0080
C13_Witness ==
    /\ op = "load_and_run"
    /\ program = <<169, 128, 170, 189>>
    /\ phase = "running"
    /\ cpu.program_counter = Origin + 5
    /\ cpu.register_a = 0
    /\ cpu.register_x = 128
    /\ ZeroFlag(cpu.status) = 1

\* the effective address of the Load-A instruction whose operand starts at p
LdaAddress(mem, opcode, p, x, y) ==
    CASE opcode = 169 -> p
      [] opcode = 161 -> IndirectXAddress(mem, MemAt(mem, p), x)
      [] opcode \in {165, 181, 177} -> ShortAddress(mem, opcode, MemAt(mem, p), x, y)
      [] opcode \in {173, 189, 185} ->
            AbsoluteAddress(opcode, MemAt(mem, p), MemAt(mem, p + 1), x, y)

\* the next iteration of run touches address 0xFFFF: as its opcode fetch, as
\* an operand byte, or as the address Load-A reads
TouchesTop ==
    \/ cpu.program_counter = 65535
    \/ /\ Fetched \in LdaOpcodes
       /\ \/ cpu.program_counter + OperandWidth(Fetched) >= 65535
          \/ LdaAddress(cpu.memory, Fetched, cpu.program_counter + 1,
                        cpu.register_x, cpu.register_y) = 65535

AccessAddrs == {0, 32768, 65534, 65535}

\* C14: a read or a write of an address up to 0xFFFE succeeds (the read
\* returns the stored byte, the write stores it) and a read or a write of
\* 0xFFFF faults; an iteration of run aborts, with every register and the
\* memory as they were, exactly when its opcode fetch, one of its operand
\* bytes or the address its Load-A reads is 0xFFFF.
C14_Access ==
    \A a \in AccessAddrs : \A d \in {0, 255} :
        LET w == mem_write(cpu, a, d) IN
        IF a <= 65534
        THEN /\ mem_read(cpu, a) = MemAt(cpu.memory, a)
             /\ mem_read(cpu, a) \in Byte
             /\ ~IsPanic(w)
             /\ mem_read(w, a) = d
        ELSE /\ mem_read(cpu, a) = FAULT
             /\ IsPanic(w)

C14_FaultStep ==
    phase = "running" =>
        /\ (phase' = "panicked") <=> TouchesTop
        /\ phase' = "panicked" =>
            /\ cpu'.register_a = cpu.register_a
            /\ cpu'.register_x = cpu.register_x
            /\ cpu'.register_y = cpu.register_y
            /\ cpu'.status = cpu.status
            /\ cpu'.memory = cpu.memory
            /\ cpu'.program_counter \in {cpu.program_counter, cpu.program_counter + 1}

C14_TopFaults == [][C14_FaultStep]_vars /\ []C14_Access

\* run was entered at 0xFFFE, fetched the 0xA9 written there and aborted on
\* its operand byte at 0xFFFF
C14_Witness ==
    /\ op = "run"
    /\ entry.program_counter = 65534
    /\ MemAt(entry.memory, 65534) = 169
    /\ phase = "panicked"
    /\ cpu.program_counter = 65535
    /\ cpu.register_a = entry.register_a

\* the CPU as the resolver sees it in the next iteration of run: the counter
\* is past the opcode, at the operand
AtOperand == [cpu EXCEPT !.program_counter = @ + 1]
OperandByte == MemAt(cpu.memory, cpu.program_counter + 1)
OperandWord == OperandByte + (256 * MemAt(cpu.memory, cpu.program_counter + 2))
OperandsInRange == cpu.program_counter + 2 < MemSize

\* C15: with the operand byte b and the operand word w at the counter, the
\* resolver returns (b + X) mod 256 for ZeroPageX and (b + Y) mod 256 for
\* ZeroPageY, both within 0..255, and (w + X) mod 65536 for AbsoluteX and
\* (w + Y) mod 65536 for AbsoluteY; an iteration of run through an indexed
\* arm (0xB5, 0xBD, 0xB9) leaves X, Y and memory as they were and the counter
\* where the fetch and the arm's own increment put it.
C15_Resolved ==
    (phase = "running" /\ OperandsInRange) =>
        /\ get_operand_address(AtOperand, "ZeroPageX") = (OperandByte + cpu.register_x) % 256
        /\ get_operand_address(AtOperand, "ZeroPageY") = (OperandByte + cpu.register_y) % 256
        /\ get_operand_address(AtOperand, "ZeroPageX") \in 0..255
        /\ get_operand_address(AtOperand, "ZeroPageY") \in 0..255
        /\ get_operand_address(AtOperand, "AbsoluteX") = (OperandWord + cpu.register_x) % 65536
        /\ get_operand_address(AtOperand, "AbsoluteY") = (OperandWord + cpu.register_y) % 65536

C15_FrameStep ==
    (phase = "running" /\ Fetched \in {181, 189, 185} /\ phase' = "running") =>
        /\ cpu'.program_counter = cpu.program_counter + 2
        /\ cpu'.register_x = cpu.register_x
        /\ cpu'.register_y = cpu.register_y
        /\ cpu'.memory = cpu.memory

C15_Indexed == []C15_Resolved /\ [][C15_FrameStep]_vars

\* the operand is 0xFFFF and X = Y = 1: both zero-page sums and both absolute
\* sums wrap to 0
C15_Witness ==
    /\ phase = "running"
    /\ program = <<189, 255, 255, 0>>
    /\ cpu.program_counter = Origin
    /\ cpu.register_x = 1
    /\ cpu.register_y = 1
    /\ get_operand_address(AtOperand, "ZeroPageY") = 0
    /\ get_operand_address(AtOperand, "AbsoluteX") = 0

OperandInRange == cpu.program_counter + 1 < MemSize

\* C16: with the operand byte b at the counter and P = (b + X) mod 256, the
\* resolver's IndirectX address is mem[P] + 256 * mem[(P + 1) mod 256]; when
\* P = 0xFF that is mem[0xFF] + 256 * mem[0x00].
C16_IndirectX ==
    (phase = "running" /\ OperandInRange) =>
        LET P == (OperandByte + cpu.register_x) % 256
            e == get_operand_address(AtOperand, "IndirectX")
        IN /\ e = MemAt(cpu.memory, P) + (256 * MemAt(cpu.memory, (P + 1) % 256))
           /\ P = 255 => e = MemAt(cpu.memory, 255) + (256 * MemAt(cpu.memory, 0))

\* the operand is 0xFF and X = 0, with 0xFF stored at 0xFF and 0x80 at 0x00:
\* the address is 0x80FF
C16_Witness ==
    /\ phase = "running"
    /\ cpu.program_counter = Origin
    /\ OperandByte = 255
    /\ cpu.register_x = 0
    /\ MemAt(cpu.memory, 255) = 255
    /\ MemAt(cpu.memory, 0) = 128
    /\ MemAt(cpu.memory, 256) = 0
    /\ get_operand_address(AtOperand, "IndirectX") = 33023

\* C17: with the operand byte b at the counter, the resolver's IndirectY
\* address is (mem[b] + 256 * mem[(b + 1) mod 256] + Y) mod 65536: the high
\* byte of the pointer comes from 0x00 when b = 0xFF, and adding Y carries
\* into the high byte and wraps only at 65536.
C17_IndirectY ==
    (phase = "running" /\ OperandInRange) =>
        LET b == OperandByte
            e == get_operand_address(AtOperand, "IndirectY")
        IN /\ e = (MemAt(cpu.memory, b) + (256 * MemAt(cpu.memory, (b + 1) % 256))
                   + cpu.register_y) % 65536
           /\ b = 255 => e = (MemAt(cpu.memory, 255) + (256 * MemAt(cpu.memory, 0))
                               + cpu.register_y) % 65536

\* the operand is 0x02, the word 0x8001 is stored at 0x02 and Y = 0xFF: the
\* sum carries into the high byte, the address is 0x8100
C17_Witness ==
    /\ phase = "running"
    /\ cpu.program_counter = Origin
    /\ OperandByte = 2
    /\ MemAt(cpu.memory, 2) = 1
    /\ MemAt(cpu.memory, 3) = 128
    /\ cpu.register_y = 255
    /\ get_operand_address(AtOperand, "IndirectY") = 33024

\* the CPU with the fields a load_and_run is claimed not to depend on set to
\* the values CPU::new gives them
Scrubbed(s) ==
    [s EXCEPT !.register_a = 0, !.register_x = 0, !.status = 0, !.program_counter = 0]

\* how the call the caller made has ended, and the CPU it left
Outcome == [cpu |-> cpu, ctl |-> IF phase = "returned" THEN "return" ELSE "panic"]

\* C18: when load_and_run(program) has ended, by a return or by a fault, the
\* CPU and the way it ended are those of load, then reset, then run applied to
\* the CPU that has the memory and Y of before the call and A = X = status =
\* program counter = 0: the outcome is that of the three calls in a row and
\* does not depend on what A, X, status and the program counter held.
C18_LoadAndRun ==
    /\ (op = "load_and_run" /\ phase \in {"returned", "panicked"}) =>
            LET l == load(Scrubbed(entry), program)
                r == reset(l)
            IN /\ ~IsPanic(l)
               /\ ~IsPanic(r)
               /\ Outcome = run(r)
               /\ Outcome = load_and_run(Scrubbed(entry), program)
    /\ (op = "run" /\ phase \in {"returned", "panicked"}) => Outcome = run(entry)

\* load_and_run of <<0xE8, 0x00>> was called with X = 0xFF and status = 0xFF
\* and has returned with X = 1 and status = 0
C18_Witness ==
    /\ op = "load_and_run"
    /\ program = <<232, 0>>
    /\ entry.register_x = 255
    /\ entry.status = 255
    /\ phase = "returned"
    /\ cpu.register_x = 1
    /\ cpu.status = 0

\* C19: an iteration of run that does not abort leaves the program counter 1
\* or 2 above where it was, never past 0xFFFF; it returns only on fetching
\* 0x00 and aborts only on touching address 0xFFFF; and every run ends, by a
\* return or by a fault.
C19_CounterStep ==
    phase = "running" =>
        /\ phase' # "panicked" =>
              cpu'.program_counter \in {cpu.program_counter + 1, cpu.program_counter + 2}
        /\ cpu'.program_counter >= cpu.program_counter
        /\ cpu'.program_counter <= 65535
        /\ phase' = "returned" => Fetched = 0
        /\ phase' = "panicked" => TouchesTop

\* the iteration run carries out next moves the counter up, or ends the loop
C19_Advances ==
    phase = "running" =>
        LET r == Iterate(cpu) IN
        r.ctl = "loop" => r.cpu.program_counter > cpu.program_counter

C19_Terminates ==
    /\ []C19_Advances
    /\ [][C19_CounterStep]_vars
    /\ (phase = "running") ~> (phase \in {"returned", "panicked"})

\* run has ended after four fetches, at 0x8000, 0x8002, 0x8003 and 0x8004
C19_Witness ==
    /\ program = <<169, 128, 170, 232, 0>>
    /\ entry.program_counter = Origin
    /\ op = "run"
    /\ phase = "returned"
    /\ cpu.program_counter = Origin + 5

\* C20: no iteration of run writes memory, Y or a status bit other than bits
\* 1 and 7; in every state inside a run the caller called, and after it, the
\* memory, Y and those six status bits are as they were when run was called.
C20_FrameStep ==
    phase = "running" =>
        /\ cpu'.memory = cpu.memory
        /\ cpu'.register_y = cpu.register_y
        /\ OtherBits(cpu'.status) = OtherBits(cpu.status)

C20_SinceCall ==
    (op = "run" /\ phase \in {"running", "returned", "panicked"}) =>
        /\ cpu.memory = entry.memory
        /\ cpu.register_y = entry.register_y
        /\ OtherBits(cpu.status) = OtherBits(entry.status)

C20_RunFrame == []C20_SinceCall /\ [][C20_FrameStep]_vars

\* run was called with Y = 0xFF and status = 0xFF on the loaded five-opcode
\* program and has returned: A, X, the flags and the counter have changed
C20_Witness ==
    /\ op = "run"
    /\ program = <<169, 128, 170, 232, 0>>
    /\ entry.program_counter = Origin
    /\ entry.register_y = 255
    /\ entry.status = 255
    /\ phase = "returned"
    /\ cpu.register_a = 128
    /\ cpu.register_x = 129
    /\ cpu.status = 253
    /\ cpu.register_y = 255
    /\ cpu.memory = entry.memory
====
